---- MODULE Spec2Model ----
(***************************************************************************)
(* NHL no-overtime analyzer: the signal extractor                          *)
(* (compute_signals_for_matchup), the scorer (score_matchup), the skip     *)
(* filter (should_skip) and the callers' loop (main, GET /api/games).      *)
(*                                                                         *)
(* Numbers.  Python floats are modelled as exact rationals <<n, d>> with   *)
(* d > 0 in lowest terms, so equal values have one representation.  An     *)
(* optional value (None or a value) is a set with at most one element:     *)
(* {} is None, {v} is the value v.  A call that can raise returns a record *)
(* [status |-> "ok", value |-> v] or [status |-> "raised", exc |-> e].     *)
(***************************************************************************)
EXTENDS Integers, Sequences, FiniteSets, TLC

VARIABLES
    SKIP_IF_RIVALRY_OR_EVEN, \* config.py:70, the process-wide skip flag
    signals,      \* score_matchup's argument (scorer specification)
    scored,       \* score_matchup's return value: {} before the call
    s_low,        \* test_head2head_penalty_applies: score_matchup(make_signals(low))
    s_high,       \* test_head2head_penalty_applies: score_matchup(make_signals(high))
    games,        \* _compute_ot_rate_from_games' argument
    ot_rate,      \* _compute_ot_rate_from_games' return value: {} before the call
    call,         \* compute_signals_for_matchup's arguments and the fetchers' responses
    outcome,      \* compute_signals_for_matchup's outcome: {} before the call
    caller,       \* "main" (main.py) or "get_games" (api/index.py)
    skip_flags,   \* get_games' skip_flags parameter
    max_rows,     \* get_games' max_rows parameter
    pc,           \* the caller's position: "start", "loop", "done", "raised"
    teams_map,    \* fetch_teams()
    standings,    \* fetch_standings()
    schedule,     \* fetch_schedule(date)
    world,        \* world[i]: what the APIs answer while game i is processed
    idx,          \* the loop's position in schedule
    results,      \* main's results / get_games' rows, before the sort
    top,          \* the sorted and truncated list
    returned,     \* what the caller gets: {} while running
    log           \* per processed game: its signals, should_skip's value, dropped or not

scorerVars == <<signals, scored, s_low, s_high>>
otVars == <<games, ot_rate>>
extractorVars == <<call, outcome>>
callerVars == <<caller, skip_flags, max_rows, pc, teams_map, standings, schedule,
                world, idx, results, top, returned, log>>

vars == <<SKIP_IF_RIVALRY_OR_EVEN, scorerVars, otVars, extractorVars, callerVars>>

----------------------------------------------------------------------------
(* Bounds of the model. *)

\* Rates are drawn from the grid k / RateSteps, k in 0..RateSteps.
RateSteps == 2
\* Game lists handed to _compute_ot_rate_from_games have at most MaxGames games.
MaxGames == 3
\* A schedule has at most MaxSchedule games.
MaxSchedule == 2

----------------------------------------------------------------------------
(* The parts of the state a specification does not use stay as they are here. *)

IdleScorer == signals = <<>> /\ scored = {} /\ s_low = {} /\ s_high = {}
IdleOT == games = <<>> /\ ot_rate = {}
IdleExtractor == call = {} /\ outcome = {}
IdleCaller ==
    /\ caller = "none" /\ skip_flags = FALSE /\ max_rows = 0 /\ pc = "idle"
    /\ teams_map = <<>> /\ standings = <<>> /\ schedule = <<>> /\ world = <<>>
    /\ idx = 0 /\ results = <<>> /\ top = <<>> /\ returned = {} /\ log = <<>>

----------------------------------------------------------------------------
(* Python values. *)

None == {}
Some(v) == {v}
IsNone(o) == o = {}
The(o) == CHOOSE v \in o : TRUE

Ok(v) == [status |-> "ok", value |-> v]
Raised(e) == [status |-> "raised", exc |-> e]

\* dict.get(k, default)
Get(m, k, default) == IF k \in DOMAIN m THEN m[k] ELSE default

Abs(x) == IF x < 0 THEN -x ELSE x

RECURSIVE GCD(_, _)
GCD(a, b) == IF b = 0 THEN a ELSE GCD(b, a % b)

\* The rational n / d (d > 0) in lowest terms.
Rat(n, d) == LET g == GCD(Abs(n), d) IN <<n \div g, d \div g>>
RInt(n) == <<n, 1>>
RAdd(a, b) == Rat(a[1] * b[2] + b[1] * a[2], a[2] * b[2])
RSub(a, b) == Rat(a[1] * b[2] - b[1] * a[2], a[2] * b[2])
RMul(a, b) == Rat(a[1] * b[1], a[2] * b[2])
RLt(a, b) == a[1] * b[2] < b[1] * a[2]
RLe(a, b) == a[1] * b[2] <= b[1] * a[2]
RGt(a, b) == RLt(b, a)
RAbs(a) == <<Abs(a[1]), a[2]>>
\* Python's max(a, b) and min(a, b): the first argument unless the second beats it.
RMax(a, b) == IF RGt(b, a) THEN b ELSE a
RMin(a, b) == IF RLt(b, a) THEN b ELSE a
\* Python 3 round(x): to the nearest integer, a tie to the even one.
RRound(a) ==
    LET f == a[1] \div a[2]
        r == a[1] % a[2]
    IN  IF 2 * r < a[2] THEN f
        ELSE IF 2 * r > a[2] THEN f + 1
        ELSE IF f % 2 = 0 THEN f ELSE f + 1

----------------------------------------------------------------------------
(* config.py *)

H2H_LOOKBACK_GAMES_PRIMARY == 20
H2H_LOOKBACK_GAMES_FALLBACK == 10
H2H_OT_RATE_PENALTY_THRESHOLD == Rat(20, 100)
PLAYOFF_RIVALRY_LOOKBACK_SEASONS == 5
EVENLY_MATCHED_STANDINGS_GAP_MAX_POINTS == 6
EVENLY_MATCHED_REG_WIN_PCT_DIFF_MAX == Rat(5, 100)
EVENLY_MATCHED_XG_SHARE_DIFF_MAX == Rat(6, 100)
TEAM_OT_RATE_LOOKBACK_GAMES == 15
TEAM_OT_RATE_BOTH_HIGH_THRESHOLD == Rat(15, 100)
LOW_TOTAL_THRESHOLD == Rat(55, 10)
SCORE_MIN == RInt(-5)
SCORE_MAX == RInt(5)
MAX_TOP_GAMES == 10

\* Weights whose evenly-matched penalty alone exceeds the clip range.
WEIGHTS_heavy_penalties ==
    [gf_diff |-> Rat(10, 10), ga_diff |-> Rat(8, 10), reg_win_diff |-> Rat(13, 10),
     avg_team_ot_inv |-> Rat(7, 10), goalie_boost |-> Rat(8, 10),
     head2head_penalty |-> Rat(-8, 10), evenly_matched_penalty |-> Rat(-60, 10),
     back_to_back_penalty |-> Rat(-6, 10), low_total_penalty |-> Rat(-5, 10),
     special_teams_mismatch |-> Rat(4, 10),
     both_teams_high_ot_multiplier |-> Rat(85, 100)]

\* A sign slip on the head-to-head penalty.
WEIGHTS_h2h_bonus ==
    [gf_diff |-> Rat(10, 10), ga_diff |-> Rat(8, 10), reg_win_diff |-> Rat(13, 10),
     avg_team_ot_inv |-> Rat(7, 10), goalie_boost |-> Rat(8, 10),
     head2head_penalty |-> Rat(8, 10), evenly_matched_penalty |-> Rat(-12, 10),
     back_to_back_penalty |-> Rat(-6, 10), low_total_penalty |-> Rat(-5, 10),
     special_teams_mismatch |-> Rat(4, 10),
     both_teams_high_ot_multiplier |-> Rat(85, 100)]

WEIGHTS ==
    [gf_diff |-> Rat(10, 10), ga_diff |-> Rat(8, 10), reg_win_diff |-> Rat(13, 10),
     avg_team_ot_inv |-> Rat(7, 10), goalie_boost |-> Rat(8, 10),
     head2head_penalty |-> Rat(-8, 10), evenly_matched_penalty |-> Rat(-12, 10),
     back_to_back_penalty |-> Rat(-6, 10), low_total_penalty |-> Rat(-5, 10),
     special_teams_mismatch |-> Rat(4, 10),
     both_teams_high_ot_multiplier |-> Rat(85, 100)]

----------------------------------------------------------------------------
(* analyzer.py: score_matchup and should_skip *)

\* Lines 194-203: the weighted base components.
base_score(sig) ==
    LET gf_diff == RInt(0)
        ga_diff == RInt(0)
        reg_win_diff == Get(sig, "regulation_win_pct_diff", RInt(0))
        avg_team_ot_inv ==
            RSub(RInt(1),
                 RMul(RAdd(Get(sig, "team_OT_rate_last_15_away", RInt(0)),
                           Get(sig, "team_OT_rate_last_15_home", RInt(0))),
                      Rat(1, 2)))
        s0 == RInt(0)
        s1 == RAdd(s0, RMul(WEIGHTS.gf_diff, gf_diff))
        s2 == RAdd(s1, RMul(WEIGHTS.ga_diff, ga_diff))
        s3 == RAdd(s2, RMul(WEIGHTS.reg_win_diff, RSub(RInt(1), reg_win_diff)))
    IN  RAdd(s3, RMul(WEIGHTS.avg_team_ot_inv, avg_team_ot_inv))

\* Lines 205-216: the penalties and the special-teams bonus, added to score.
with_penalties(sig, score) ==
    LET p1 == IF RGt(Get(sig, "head2head_OT_rate", RInt(0)), H2H_OT_RATE_PENALTY_THRESHOLD)
              THEN RAdd(score, WEIGHTS.head2head_penalty) ELSE score
        p2 == IF Get(sig, "evenly_matched", FALSE)
              THEN RAdd(p1, WEIGHTS.evenly_matched_penalty) ELSE p1
        p3 == IF Get(sig, "back_to_back_away", FALSE) \/ Get(sig, "back_to_back_home", FALSE)
              THEN RAdd(p2, WEIGHTS.back_to_back_penalty) ELSE p2
        p4 == IF ~IsNone(Get(sig, "implied_total", None))
                 /\ RLe(The(Get(sig, "implied_total", None)), LOW_TOTAL_THRESHOLD)
              THEN RAdd(p3, WEIGHTS.low_total_penalty) ELSE p3
    IN  IF ~IsNone(Get(sig, "special_teams_mismatch", None))
        THEN RAdd(p4, RMul(WEIGHTS.special_teams_mismatch,
                           The(Get(sig, "special_teams_mismatch", None))))
        ELSE p4

\* A test that is satisfied by one team's recent OT form alone.
both_teams_high_ot_either(sig) ==
    \/ RGt(Get(sig, "team_OT_rate_last_15_away", RInt(0)), TEAM_OT_RATE_BOTH_HIGH_THRESHOLD)
    \/ RGt(Get(sig, "team_OT_rate_last_15_home", RInt(0)), TEAM_OT_RATE_BOTH_HIGH_THRESHOLD)

\* Lines 219-222: both teams' recent OT form is high.
both_teams_high_ot(sig) ==
    /\ RGt(Get(sig, "team_OT_rate_last_15_away", RInt(0)), TEAM_OT_RATE_BOTH_HIGH_THRESHOLD)
    /\ RGt(Get(sig, "team_OT_rate_last_15_home", RInt(0)), TEAM_OT_RATE_BOTH_HIGH_THRESHOLD)

\* Lines 199-223: the raw score.
raw_score(sig) ==
    LET acc == with_penalties(sig, base_score(sig))
    IN  IF both_teams_high_ot(sig)
        THEN RMul(acc, WEIGHTS.both_teams_high_ot_multiplier)
        ELSE acc

\* A clip that forgets the upper end.
clip_lower_only(score) == RMax(SCORE_MIN, score)

\* Line 226.
clip(score) == RMax(SCORE_MIN, RMin(SCORE_MAX, score))

\* Line 227.
confidence_of(clipped) ==
    LET span == RSub(SCORE_MAX, SCORE_MIN)
        num == RMul(RInt(100), RSub(clipped, SCORE_MIN))
    IN  RRound(Rat(num[1] * span[2], num[2] * span[1]))

\* A return that leaves the special-teams value out of the mapping.
score_matchup_drops_key(sig) ==
    LET score == raw_score(sig)
    IN  [k \in (DOMAIN sig \ {"special_teams_mismatch"}) \cup {"score", "confidence"} |->
            IF k = "score" THEN score
            ELSE IF k = "confidence" THEN confidence_of(clip(score))
            ELSE sig[k]]

\* Lines 192-229: {**signals, "score": score, "confidence": confidence}.
score_matchup(sig) ==
    LET score == raw_score(sig)
        clipped == clip(score)
        confidence == confidence_of(clipped)
    IN  [score |-> score, confidence |-> confidence] @@ sig

\* A filter that forgets the feature flag.
should_skip_ignores_flag(flag, sig) ==
    \/ Get(sig, "evenly_matched", FALSE)
    \/ Get(sig, "playoff_rivalry_flag", FALSE)
    \/ RGt(Get(sig, "head2head_OT_rate", RInt(0)), H2H_OT_RATE_PENALTY_THRESHOLD)

\* Lines 232-235; flag is the value of SKIP_IF_RIVALRY_OR_EVEN.
should_skip(flag, sig) ==
    IF ~flag THEN FALSE
    ELSE \/ Get(sig, "evenly_matched", FALSE)
         \/ Get(sig, "playoff_rivalry_flag", FALSE)
         \/ RGt(Get(sig, "head2head_OT_rate", RInt(0)), H2H_OT_RATE_PENALTY_THRESHOLD)

----------------------------------------------------------------------------
(* tests/test_head2head_penalty.py *)

\* make_signals, lines 6-28: the mapping with its head-to-head rate replaced.
make_signals(base, h2h_rate) == [base EXCEPT !.head2head_OT_rate = h2h_rate]

----------------------------------------------------------------------------
(* The scorer on its own: score_matchup applied to signal mappings. *)

Rates == {Rat(k, RateSteps) : k \in 0..RateSteps}
\* Rates outside [0, 1], which drive the raw score past either end of the clip.
WildRates == {RInt(-4), RInt(6)}
H2HRates == {RInt(0), H2H_OT_RATE_PENALTY_THRESHOLD, Rat(1, RateSteps), RInt(1)}
ImpliedTotals == {None, Some(LOW_TOTAL_THRESHOLD), Some(RInt(6))}
Mismatches == {None, Some(Rat(RateSteps - 1, RateSteps))}

\* A SignalSet as compute_signals_for_matchup lays it out (analyzer.py:167-189).
SignalSet(h2h, rw, ota, oth, even, rivalry, b2ba, b2bh, it, stm) ==
    [away_id |-> 1, home_id |-> 2,
     head2head_OT_rate |-> h2h,
     head2head_avg_goal_margin |-> RInt(1),
     playoff_rivalry_flag |-> rivalry,
     standings_gap |-> 2,
     regulation_win_pct_diff |-> rw,
     xg_share_diff |-> Some(Rat(3, 100)),
     special_teams_mismatch |-> stm,
     evenly_matched |-> even,
     team_OT_rate_last_15_away |-> ota,
     team_OT_rate_last_15_home |-> oth,
     days_rest_away |-> IF b2ba THEN Some(0) ELSE Some(1),
     days_rest_home |-> IF b2bh THEN Some(0) ELSE Some(1),
     back_to_back_away |-> b2ba,
     back_to_back_home |-> b2bh,
     goalie_status_away |-> "unknown",
     goalie_status_home |-> "unknown",
     implied_total |-> it,
     data_confidence |-> 100,
     reason |-> ""]

\* The mapping without one of its keys (the test's mapping has no
\* special_teams_mismatch key).
WithoutKey(m, key) == [k \in DOMAIN m \ {key} |-> m[k]]

\* Mappings at the edges: every rate at an end of [0, 1], the team OT rates
\* also at and just above TEAM_OT_RATE_BOTH_HIGH_THRESHOLD, every penalty on
\* or off.
EdgeRates == {RInt(0), RInt(1)}
EdgeOtRates ==
    EdgeRates \cup {TEAM_OT_RATE_BOTH_HIGH_THRESHOLD,
                    RAdd(TEAM_OT_RATE_BOTH_HIGH_THRESHOLD, Rat(1, 100))}

EdgeInputs ==
    {SignalSet(h2h, rw, ota, oth, even, FALSE, b2ba, FALSE, it, stm) :
        h2h \in EdgeRates, rw \in EdgeRates,
        ota \in EdgeOtRates, oth \in EdgeOtRates, even \in BOOLEAN,
        b2ba \in BOOLEAN, it \in {None, Some(LOW_TOTAL_THRESHOLD)},
        stm \in {None} \cup {Some(r) : r \in EdgeRates}}

ScorerInputs ==
    LET full == {SignalSet(h2h, rw, ota, oth, even, FALSE, b2ba, b2bh, it, stm) :
                    h2h \in H2HRates, rw \in Rates \cup WildRates,
                    ota \in Rates, oth \in Rates, even \in BOOLEAN,
                    b2ba \in BOOLEAN, b2bh \in BOOLEAN,
                    it \in ImpliedTotals, stm \in Mismatches}
    IN  full \cup {WithoutKey(m, "special_teams_mismatch") : m \in full}
        \cup EdgeInputs

InitScore ==
    /\ SKIP_IF_RIVALRY_OR_EVEN = FALSE
    /\ signals \in ScorerInputs
    /\ scored = None
    /\ s_low = None
    /\ s_high = None
    /\ IdleOT /\ IdleExtractor /\ IdleCaller

\* scored = score_matchup(signals)
ScoreMatchup ==
    /\ IsNone(scored)
    /\ scored' = Some(score_matchup(signals))
    /\ UNCHANGED <<SKIP_IF_RIVALRY_OR_EVEN, signals, s_low, s_high, otVars,
                   extractorVars, callerVars>>

\* test_head2head_penalty_applies, lines 31-34, for any rate at or below the
\* threshold and any rate above it.
TestHead2HeadPenalty ==
    /\ IsNone(s_low)
    /\ \E lo \in H2HRates, hi \in H2HRates :
          /\ RLe(lo, H2H_OT_RATE_PENALTY_THRESHOLD)
          /\ RGt(hi, H2H_OT_RATE_PENALTY_THRESHOLD)
          /\ s_low' = Some(score_matchup(make_signals(signals, lo)))
          /\ s_high' = Some(score_matchup(make_signals(signals, hi)))
    /\ UNCHANGED <<SKIP_IF_RIVALRY_OR_EVEN, signals, scored, otVars,
                   extractorVars, callerVars>>

NextScore == ScoreMatchup \/ TestHead2HeadPenalty

SpecScore == InitScore /\ [][NextScore]_vars

----------------------------------------------------------------------------
(* Properties of the scorer. *)

\* The raw score clipped to [SCORE_MIN, SCORE_MAX], stated case by case.
Clamped(s) ==
    IF RLt(s, SCORE_MIN) THEN SCORE_MIN
    ELSE IF RGt(s, SCORE_MAX) THEN SCORE_MAX
    ELSE s

\* 100 * (x - SCORE_MIN) / (SCORE_MAX - SCORE_MIN) as a rational.
Percent(x) ==
    LET span == RSub(SCORE_MAX, SCORE_MIN)
        num == RMul(RInt(100), RSub(x, SCORE_MIN))
    IN  Rat(num[1] * span[2], num[2] * span[1])

\* c is the integer nearest to the rational x, the even one at a tie.
IsRoundOf(c, x) ==
    /\ 2 * Abs(c * x[2] - x[1]) <= x[2]
    /\ (2 * Abs(c * x[2] - x[1]) = x[2]) => (c % 2 = 0)

\* C1: every mapping score_matchup returns carries an integer confidence in
\* 0..100, which is the rounding of 100 * (clipped - SCORE_MIN) / (SCORE_MAX -
\* SCORE_MIN), where clipped is the raw score clipped to [SCORE_MIN, SCORE_MAX].
C1_ConfidenceInRange ==
    \A sc \in scored \cup s_low \cup s_high :
        /\ sc.confidence \in Int
        /\ 0 <= sc.confidence /\ sc.confidence <= 100
        /\ IsRoundOf(sc.confidence, Percent(Clamped(sc.score)))

\* A scored mapping whose raw score lies above SCORE_MAX: the clip acted.
C1_Witness ==
    \E sc \in scored : RGt(sc.score, SCORE_MAX) /\ sc.confidence = 100

\* C2: of two mappings identical except for head2head_OT_rate, one at or below
\* the penalty threshold and one above it, the one above gets a confidence no
\* greater than the other's.
C2_H2HPenaltyMonotone ==
    \A lo \in s_low, hi \in s_high :
        ( /\ RLe(lo.head2head_OT_rate, H2H_OT_RATE_PENALTY_THRESHOLD)
          /\ RGt(hi.head2head_OT_rate, H2H_OT_RATE_PENALTY_THRESHOLD)
          /\ \A k \in DOMAIN signals \ {"head2head_OT_rate"} : lo[k] = hi[k] )
        => hi.confidence <= lo.confidence

\* The pair was scored with the multiplier applied and a negative accumulated
\* score, and the penalty lowered the confidence.
C2_Witness ==
    \E lo \in s_low, hi \in s_high :
        /\ both_teams_high_ot(lo)
        /\ RLt(lo.score, RInt(0))
        /\ hi.confidence < lo.confidence

\* C6: score_matchup returns a new mapping holding every key of its argument
\* with the value unchanged, plus exactly the keys score and confidence, and
\* leaves its argument as it was.
C6_ScoreAddsTwoKeys ==
    [][ (IsNone(scored) /\ ~IsNone(scored')) =>
          LET sc == The(scored')
          IN  /\ signals' = signals
              /\ {"score", "confidence"} \cap DOMAIN signals = {}
              /\ DOMAIN sc = DOMAIN signals \cup {"score", "confidence"}
              /\ \A k \in DOMAIN signals : sc[k] = signals[k]
              /\ IsRoundOf(sc.confidence, Percent(Clamped(sc.score))) ]_vars

\* A mapping without the special_teams_mismatch key was scored, and the score
\* it carries lies outside the clip interval (it is the unclipped value).
C6_Witness ==
    \E sc \in scored :
        /\ "special_teams_mismatch" \notin DOMAIN signals
        /\ "special_teams_mismatch" \notin DOMAIN sc
        /\ RLt(sc.score, SCORE_MIN)

\* The accumulated score of a mapping before the multiplier: the weighted
\* base terms, the penalties that apply, the special-teams bonus.
Applies(cond, weight) == IF cond THEN weight ELSE RInt(0)

Accumulated(sig) ==
    LET rw == Get(sig, "regulation_win_pct_diff", RInt(0))
        ota == Get(sig, "team_OT_rate_last_15_away", RInt(0))
        oth == Get(sig, "team_OT_rate_last_15_home", RInt(0))
        it == Get(sig, "implied_total", None)
        stm == Get(sig, "special_teams_mismatch", None)
        terms ==
            <<RMul(WEIGHTS.reg_win_diff, RSub(RInt(1), rw)),
              RMul(WEIGHTS.avg_team_ot_inv, RSub(RInt(1), RMul(Rat(1, 2), RAdd(ota, oth)))),
              Applies(RGt(Get(sig, "head2head_OT_rate", RInt(0)),
                          H2H_OT_RATE_PENALTY_THRESHOLD), WEIGHTS.head2head_penalty),
              Applies(Get(sig, "evenly_matched", FALSE), WEIGHTS.evenly_matched_penalty),
              Applies(Get(sig, "back_to_back_away", FALSE)
                        \/ Get(sig, "back_to_back_home", FALSE),
                      WEIGHTS.back_to_back_penalty),
              Applies(\E t \in it : RLe(t, LOW_TOTAL_THRESHOLD), WEIGHTS.low_total_penalty),
              IF IsNone(stm) THEN RInt(0)
              ELSE RMul(WEIGHTS.special_teams_mismatch, The(stm))>>
    IN  RAdd(terms[1], RAdd(terms[2], RAdd(terms[3], RAdd(terms[4],
            RAdd(terms[5], RAdd(terms[6], terms[7]))))))

BothAboveThreshold(sig) ==
    /\ RGt(Get(sig, "team_OT_rate_last_15_away", RInt(0)), TEAM_OT_RATE_BOTH_HIGH_THRESHOLD)
    /\ RGt(Get(sig, "team_OT_rate_last_15_home", RInt(0)), TEAM_OT_RATE_BOTH_HIGH_THRESHOLD)

\* C14: the both-teams-high-OT multiplier is applied iff both team OT rates
\* are strictly above TEAM_OT_RATE_BOTH_HIGH_THRESHOLD, and last: the raw score
\* is multiplier x S when it applies and S otherwise, S being the sum of the
\* base terms, the penalties and the special-teams bonus; the magnitude is
\* dampened, and a negative S gives a multiplied score greater than S.
C14_MultiplierAppliedLast ==
    \A sc \in scored :
        LET S == Accumulated(signals)
        IN  IF BothAboveThreshold(signals)
            THEN /\ sc.score = RMul(WEIGHTS.both_teams_high_ot_multiplier, S)
                 /\ RLe(RAbs(sc.score), RAbs(S))
                 /\ S # RInt(0) => RLt(RAbs(sc.score), RAbs(S))
                 /\ RLt(S, RInt(0)) => RGt(sc.score, S)
            ELSE sc.score = S

\* Both team OT rates are just above the threshold, the penalties outweigh the
\* base terms, and the score returned is negative.
C14_Witness ==
    \E sc \in scored :
        /\ signals.team_OT_rate_last_15_away = RAdd(TEAM_OT_RATE_BOTH_HIGH_THRESHOLD, Rat(1, 100))
        /\ signals.team_OT_rate_last_15_home = RAdd(TEAM_OT_RATE_BOTH_HIGH_THRESHOLD, Rat(1, 100))
        /\ RLt(sc.score, RInt(0))
        /\ RLt(Accumulated(signals), sc.score)

\* A rate-type signal within [0, 1].
InUnit(r) == RLe(RInt(0), r) /\ RLe(r, RInt(1))

RatesInUnit(sig) ==
    /\ InUnit(Get(sig, "regulation_win_pct_diff", RInt(0)))
    /\ InUnit(Get(sig, "team_OT_rate_last_15_away", RInt(0)))
    /\ InUnit(Get(sig, "team_OT_rate_last_15_home", RInt(0)))
    /\ \A m \in Get(sig, "special_teams_mismatch", None) : InUnit(m)

\* C17: with the default WEIGHTS, SCORE_MIN and SCORE_MAX and every rate-type
\* signal within [0, 1], the raw score lies inside [SCORE_MIN, SCORE_MAX]
\* whatever the penalty flags and the multiplier, so the clip leaves it as it
\* is and the confidence is neither 0 nor 100.
C17_RawScoreInsideClipRange ==
    \A sc \in scored :
        RatesInUnit(signals) =>
            /\ RLe(SCORE_MIN, sc.score) /\ RLe(sc.score, SCORE_MAX)
            /\ Clamped(sc.score) = sc.score
            /\ sc.confidence \notin {0, 100}

\* The lowest raw score the rates allow: no regulation-win or OT-rate credit
\* beyond one team's, every penalty on, -2.75.
C17_Witness ==
    \E sc \in scored :
        /\ RatesInUnit(signals)
        /\ signals.evenly_matched /\ signals.back_to_back_away
        /\ sc.score = Rat(-275, 100)
        /\ sc.confidence = 22

----------------------------------------------------------------------------
(* analyzer.py: the helpers of the extractor *)

\* Lines 29-30.
_pct(n, d) == IF d # 0 THEN Rat(n, d) ELSE RInt(0)

\* An overtime test that counts a third period as overtime.
game_went_to_ot_from_3(g) ==
    LET ls == Get(g, "linescore", <<>>)
        periods == Get(ls, "periods", <<>>)
    IN  Len(periods) >= 3 \/ Get(ls, "hasShootout", FALSE)

\* Lines 37-39: the test that counts a game as an overtime game.
game_went_to_ot(g) ==
    LET ls == Get(g, "linescore", <<>>)
        periods == Get(ls, "periods", <<>>)
    IN  Len(periods) > 3 \/ Get(ls, "hasShootout", FALSE)

\* Lines 34-41: the loop over the games, accumulating <<ot_count, total>>.
RECURSIVE ot_loop(_, _, _)
ot_loop(gs, ot_count, total) ==
    IF gs = <<>> THEN <<ot_count, total>>
    ELSE ot_loop(Tail(gs),
                 IF game_went_to_ot(Head(gs)) THEN ot_count + 1 ELSE ot_count,
                 total + 1)

\* Lines 33-42.
_compute_ot_rate_from_games(gs) ==
    LET acc == ot_loop(gs, 0, 0) IN _pct(acc[1], acc[2])

----------------------------------------------------------------------------
(* data_fetcher.py: the fetchers, each given the schedule API's response *)
(* (_api_get's outcome: Ok(list of games) or Raised(exception)).          *)

Take(q, n) == SubSeq(q, 1, IF Len(q) < n THEN Len(q) ELSE n)

\* The sort key g.get("gameDate", ""): dates are day numbers, a missing date
\* sorts below every date.
DateKey(g) == Get(g, "gameDate", -1)

\* list.sort(key=gameDate, reverse=True): stable, newest first.
RECURSIVE InsertByDateDesc(_, _)
InsertByDateDesc(sorted, g) ==
    IF sorted = <<>> THEN <<g>>
    ELSE IF DateKey(Head(sorted)) >= DateKey(g)
         THEN <<Head(sorted)>> \o InsertByDateDesc(Tail(sorted), g)
         ELSE <<g>> \o sorted

RECURSIVE SortByDateDesc(_)
SortByDateDesc(gs) ==
    IF gs = <<>> THEN <<>>
    ELSE InsertByDateDesc(SortByDateDesc(SubSeq(gs, 1, Len(gs) - 1)), gs[Len(gs)])

TeamId(g, side) == Get(Get(Get(Get(g, "teams", <<>>), side, <<>>), "team", <<>>), "id", 0)

\* Lines 120-130.
fetch_team_last_games(team_id, count, api) ==
    IF api.status = "raised" THEN api
    ELSE Ok(Take(SortByDateDesc(api.value), count))

\* Lines 133-150.
fetch_head_to_head(team_a, team_b, max_games, api) ==
    IF api.status = "raised" THEN api
    ELSE LET matching == SelectSeq(api.value,
                 LAMBDA g : {TeamId(g, "home"), TeamId(g, "away")} = {team_a, team_b})
         IN  Ok(Take(SortByDateDesc(matching), max_games))

\* A team id int() cannot convert.
NotAnInt == -1

\* Lines 163-168: one series of a bracket.  A series is its matchupTeams
\* list, each entry the team's id (None when the entry has none).  The series
\* is skipped, matches the two teams, is some other series, or raises
\* (IndexError on a one-entry list, ValueError from int()).
series_outcome(series, team_a, team_b) ==
    IF series = <<>> THEN "skip"
    ELSE IF Len(series) < 2 THEN "raise"
    ELSE IF IsNone(series[1]) \/ IsNone(series[2]) THEN "skip"
    ELSE IF NotAnInt \in (series[1] \cup series[2]) THEN "raise"
    ELSE IF {The(series[1]), The(series[2])} = {team_a, team_b} THEN "match"
    ELSE "other"

\* Lines 161-168: the series of one season, in order, from the i-th on.
RECURSIVE season_scan(_, _, _, _)
season_scan(bracket, team_a, team_b, i) ==
    IF i > Len(bracket) THEN "none"
    ELSE LET r == series_outcome(bracket[i], team_a, team_b)
         IN  IF r = "match" THEN "found"
             ELSE IF r = "raise" THEN "raised"
             ELSE season_scan(bracket, team_a, team_b, i + 1)

\* A scan that carries on with the next season after a failure.
RECURSIVE playoff_scan_skips_failures(_, _, _, _, _)
playoff_scan_skips_failures(team_a, team_b, seasons, apis, s) ==
    IF s > seasons THEN FALSE
    ELSE IF apis[s].status = "raised"
         THEN playoff_scan_skips_failures(team_a, team_b, seasons, apis, s + 1)
    ELSE IF season_scan(apis[s].value, team_a, team_b, 1) = "found" THEN TRUE
    ELSE playoff_scan_skips_failures(team_a, team_b, seasons, apis, s + 1)

\* Lines 155-171: the seasons are scanned in order; apis[s] is the playoff
\* API's response for the s-th season back.  Any exception ends the scan with
\* False.
RECURSIVE playoff_scan(_, _, _, _, _)
playoff_scan(team_a, team_b, seasons, apis, s) ==
    IF s > seasons THEN FALSE
    ELSE IF apis[s].status = "raised" THEN FALSE
    ELSE LET r == season_scan(apis[s].value, team_a, team_b, 1)
         IN  IF r = "found" THEN TRUE
             ELSE IF r = "raised" THEN FALSE
             ELSE playoff_scan(team_a, team_b, seasons, apis, s + 1)

\* Lines 153-171.
fetch_playoff_series_last_n_seasons(team_a, team_b, seasons, apis) ==
    playoff_scan(team_a, team_b, seasons, apis, 1)

\* Lines 187-199.
RECURSIVE days_rest_loop(_, _)
days_rest_loop(gs, reference_date) ==
    IF gs = <<>> THEN None
    ELSE IF "gameDate" \notin DOMAIN Head(gs) THEN days_rest_loop(Tail(gs), reference_date)
    ELSE IF Head(gs).gameDate < reference_date
         THEN Some(reference_date - Head(gs).gameDate - 1)
         ELSE days_rest_loop(Tail(gs), reference_date)

compute_days_rest(team_id, reference_date, api) ==
    LET fetched == fetch_team_last_games(team_id, 5, api)
    IN  IF fetched.status = "raised" THEN None
        ELSE days_rest_loop(fetched.value, reference_date)

\* Lines 202-206: odds is None or a mapping that may hold a total.
game_implied_total_from_odds(odds) ==
    IF IsNone(odds) \/ The(odds) = <<>> THEN None
    ELSE Get(The(odds), "total", None)

----------------------------------------------------------------------------
(* analyzer.py: compute_signals_for_matchup *)

\* Lines 45-56.
RECURSIVE margins_of(_)
margins_of(gs) ==
    IF gs = <<>> THEN <<>>
    ELSE LET teams == Get(Head(gs), "teams", <<>>)
             away == Get(Get(teams, "away", <<>>), "score", None)
             home == Get(Get(teams, "home", <<>>), "score", None)
         IN  IF IsNone(away) \/ IsNone(home) THEN margins_of(Tail(gs))
             ELSE <<Abs(The(away) - The(home))>> \o margins_of(Tail(gs))

RECURSIVE SumSeq(_)
SumSeq(q) == IF q = <<>> THEN 0 ELSE Head(q) + SumSeq(Tail(q))

_avg_goal_margin(gs) ==
    LET margins == margins_of(gs)
    IN  IF margins = <<>> THEN RInt(0) ELSE Rat(SumSeq(margins), Len(margins))

\* x or 0, for an optional integer.
OrZero(o) == IF IsNone(o) THEN 0 ELSE The(o)

\* Lines 59-64: standings_entry is None or a team's record.
_regulation_win_pct(standings_entry) ==
    IF IsNone(standings_entry) THEN RInt(0)
    ELSE LET rw == OrZero(Get(The(standings_entry), "regulationWins", None))
             gp == OrZero(Get(The(standings_entry), "gamesPlayed", None))
         IN  _pct(rw, gp)

\* dict.get(team): None when the team has no record.
standings_get(snapshot, team) ==
    IF team \in DOMAIN snapshot THEN Some(snapshot[team]) ELSE None

\* (s or {}).get(key, default) for an optional record s: the stored value,
\* which is None when the record holds the key with no value.
EntryGet(s, key, default) ==
    IF IsNone(s) THEN default ELSE Get(The(s), key, default)

\* Line 95: None - int raises TypeError.
standings_gap_of(s_home, s_away) ==
    LET ph == EntryGet(s_home, "points", Some(0))
        pa == EntryGet(s_away, "points", Some(0))
    IN  IF IsNone(ph) \/ IsNone(pa) THEN Raised("TypeError")
        ELSE Ok(Abs(The(ph) - The(pa)))

\* A value float() cannot convert.
Malformed == <<0, 0>>

\* A mismatch that keeps the sign of each difference.
special_teams_mismatch_of_signed(s_home, s_away) ==
    LET pp_home == EntryGet(s_home, "ppPct", None)
        pk_away == EntryGet(s_away, "pkPct", None)
        pp_away == EntryGet(s_away, "ppPct", None)
        pk_home == EntryGet(s_home, "pkPct", None)
        first == ~IsNone(pp_home) /\ ~IsNone(pk_away)
        second == ~IsNone(pp_away) /\ ~IsNone(pk_home)
        raises == \/ first /\ Malformed \in (pp_home \cup pk_away)
                  \/ second /\ Malformed \in (pp_away \cup pk_home)
        c1 == RMul(RSub(The(pp_home), The(pk_away)), Rat(1, 100))
        c2 == RMul(RSub(The(pp_away), The(pk_home)), Rat(1, 100))
    IN  IF raises THEN None
        ELSE IF first /\ second THEN Some(RMax(c1, c2))
        ELSE IF first THEN Some(c1)
        ELSE IF second THEN Some(c2)
        ELSE None

\* Lines 98-112.  A candidate is computed for each pair whose two fields are
\* present; float() raising on either drops every candidate.
special_teams_mismatch_of(s_home, s_away) ==
    LET pp_home == EntryGet(s_home, "ppPct", None)
        pk_away == EntryGet(s_away, "pkPct", None)
        pp_away == EntryGet(s_away, "ppPct", None)
        pk_home == EntryGet(s_home, "pkPct", None)
        first == ~IsNone(pp_home) /\ ~IsNone(pk_away)
        second == ~IsNone(pp_away) /\ ~IsNone(pk_home)
        raises == \/ first /\ Malformed \in (pp_home \cup pk_away)
                  \/ second /\ Malformed \in (pp_away \cup pk_home)
        c1 == RMul(RAbs(RSub(The(pp_home), The(pk_away))), Rat(1, 100))
        c2 == RMul(RAbs(RSub(The(pp_away), The(pk_home))), Rat(1, 100))
    IN  IF raises THEN None
        ELSE IF first /\ second THEN Some(RMax(c1, c2))
        ELSE IF first THEN Some(c1)
        ELSE IF second THEN Some(c2)
        ELSE None

\* x or 0, for an optional float.
ROrZero(o) == IF IsNone(o) THEN RInt(0) ELSE The(o)

\* Lines 113-115: xg_share_last10 is None or a mapping team id -> share.
xg_share_diff_of(xg_share_last10, away, home) ==
    IF /\ ~IsNone(xg_share_last10)
       /\ DOMAIN The(xg_share_last10) # {}
       /\ away \in DOMAIN The(xg_share_last10)
       /\ home \in DOMAIN The(xg_share_last10)
    THEN Some(RAbs(RSub(ROrZero(The(xg_share_last10)[home]),
                        ROrZero(The(xg_share_last10)[away]))))
    ELSE None

\* A parity test that lets a value equal to its threshold pass.
evenly_matched_of_le(standings_gap, reg_win_pct_diff, xg_share_diff) ==
    IF ~IsNone(xg_share_diff)
    THEN /\ standings_gap <= EVENLY_MATCHED_STANDINGS_GAP_MAX_POINTS
         /\ RLe(reg_win_pct_diff, EVENLY_MATCHED_REG_WIN_PCT_DIFF_MAX)
         /\ RLe(The(xg_share_diff), EVENLY_MATCHED_XG_SHARE_DIFF_MAX)
    ELSE /\ standings_gap <= EVENLY_MATCHED_STANDINGS_GAP_MAX_POINTS
         /\ RLe(reg_win_pct_diff, EVENLY_MATCHED_REG_WIN_PCT_DIFF_MAX)

\* Lines 117-129.
evenly_matched_of(standings_gap, reg_win_pct_diff, xg_share_diff) ==
    IF ~IsNone(xg_share_diff)
    THEN /\ standings_gap < EVENLY_MATCHED_STANDINGS_GAP_MAX_POINTS
         /\ RLt(reg_win_pct_diff, EVENLY_MATCHED_REG_WIN_PCT_DIFF_MAX)
         /\ RLt(The(xg_share_diff), EVENLY_MATCHED_XG_SHARE_DIFF_MAX)
    ELSE /\ standings_gap < EVENLY_MATCHED_STANDINGS_GAP_MAX_POINTS
         /\ RLt(reg_win_pct_diff, EVENLY_MATCHED_REG_WIN_PCT_DIFF_MAX)

\* A checklist share cut down to an integer instead of rounded.
data_confidence_of_truncated(s_home, s_away, implied_total, xg_share_diff) ==
    LET flags == <<TRUE, TRUE, ~IsNone(s_home), ~IsNone(s_away), TRUE, TRUE,
                   ~IsNone(implied_total), ~IsNone(xg_share_diff)>>
        available == Cardinality({i \in 1..Len(flags) : flags[i]})
    IN  (100 * available) \div 8

\* Lines 151-157: h2h, last_home and last_away are lists by now, never None.
data_confidence_of(s_home, s_away, implied_total, xg_share_diff) ==
    LET flags == <<TRUE, TRUE, ~IsNone(s_home), ~IsNone(s_away), TRUE, TRUE,
                   ~IsNone(implied_total), ~IsNone(xg_share_diff)>>
        available == Cardinality({i \in 1..Len(flags) : flags[i]})
        total == 8
    IN  RRound(RMul(RInt(100), _pct(available, total)))

\* "; ".join(bits)
RECURSIVE JoinBits(_)
JoinBits(bits) ==
    IF bits = <<>> THEN ""
    ELSE IF Len(bits) = 1 THEN bits[1]
    ELSE bits[1] \o "; " \o JoinBits(Tail(bits))

\* A reason whose head-to-head text appears from the threshold on.
reason_of_at_threshold(head2head_ot_rate, n_h2h, playoff_rivalry_flag, evenly_matched) ==
    LET b1 == IF RLe(H2H_OT_RATE_PENALTY_THRESHOLD, head2head_ot_rate)
              THEN <<"Head-to-head OT "
                       \o ToString(RRound(RMul(RInt(100), head2head_ot_rate)))
                       \o "% last " \o ToString(n_h2h)>>
              ELSE <<>>
        b2 == IF playoff_rivalry_flag THEN <<"Recent playoffs met">> ELSE <<>>
        b3 == IF evenly_matched
              THEN <<"Evenly matched by standings/reg wins/xG">> ELSE <<>>
    IN  JoinBits(b1 \o b2 \o b3)

\* Lines 159-165 and 188.
reason_of(head2head_ot_rate, n_h2h, playoff_rivalry_flag, evenly_matched) ==
    LET b1 == IF RGt(head2head_ot_rate, H2H_OT_RATE_PENALTY_THRESHOLD)
              THEN <<"Head-to-head OT "
                       \o ToString(RRound(RMul(RInt(100), head2head_ot_rate)))
                       \o "% last " \o ToString(n_h2h)>>
              ELSE <<>>
        b2 == IF playoff_rivalry_flag THEN <<"Recent playoffs met">> ELSE <<>>
        b3 == IF evenly_matched
              THEN <<"Evenly matched by standings/reg wins/xG">> ELSE <<>>
    IN  JoinBits(b1 \o b2 \o b3)

\* A resolution that also falls back on a first sample of exactly
\* H2H_LOOKBACK_GAMES_FALLBACK games.
resolve_h2h_fallback_at_ten(away, home, api_first, api_second) ==
    LET first == fetch_head_to_head(away, home, H2H_LOOKBACK_GAMES_PRIMARY, api_first)
    IN  IF first.status = "raised" THEN first
        ELSE IF Len(first.value) <= H2H_LOOKBACK_GAMES_FALLBACK
             THEN fetch_head_to_head(away, home, H2H_LOOKBACK_GAMES_FALLBACK, api_second)
             ELSE first

\* Lines 84-87: the head-to-head sample, or the exception a fetch raised.
\* api_first and api_second are the schedule API's responses to the two calls.
resolve_h2h(away, home, api_first, api_second) ==
    LET first == fetch_head_to_head(away, home, H2H_LOOKBACK_GAMES_PRIMARY, api_first)
    IN  IF first.status = "raised" THEN first
        ELSE IF Len(first.value) < H2H_LOOKBACK_GAMES_FALLBACK
             THEN fetch_head_to_head(away, home, H2H_LOOKBACK_GAMES_FALLBACK, api_second)
             ELSE first

\* Lines 67-189.  c holds the arguments (game, standings, odds, xg_share_last10)
\* and what the outside world answers during the call: today, and the API
\* responses h2h_first, h2h_second, playoffs, last_away, last_home, rest_away,
\* rest_home.  The outcome is Ok(SignalSet) or Raised(exception), the first
\* exception in the order of the statements.
compute_signals_for_matchup(c) ==
    LET home == TeamId(c.game, "home")
        away == TeamId(c.game, "away")
        game_date == Get(c.game, "gameDate", c.today)
        h2h == resolve_h2h(away, home, c.h2h_first, c.h2h_second)
        s_away == standings_get(c.standings, away)
        s_home == standings_get(c.standings, home)
        gap == standings_gap_of(s_home, s_away)
        last_away == fetch_team_last_games(away, TEAM_OT_RATE_LOOKBACK_GAMES, c.last_away)
        last_home == fetch_team_last_games(home, TEAM_OT_RATE_LOOKBACK_GAMES, c.last_home)
    IN  IF h2h.status = "raised" THEN h2h
        ELSE IF gap.status = "raised" THEN gap
        ELSE IF last_away.status = "raised" THEN last_away
        ELSE IF last_home.status = "raised" THEN last_home
        ELSE
        LET head2head_ot_rate == _compute_ot_rate_from_games(h2h.value)
            playoff_rivalry_flag ==
                fetch_playoff_series_last_n_seasons(
                    away, home, PLAYOFF_RIVALRY_LOOKBACK_SEASONS, c.playoffs)
            reg_win_pct_diff ==
                RAbs(RSub(_regulation_win_pct(s_home), _regulation_win_pct(s_away)))
            xg_share_diff == xg_share_diff_of(c.xg_share_last10, away, home)
            evenly_matched == evenly_matched_of(gap.value, reg_win_pct_diff, xg_share_diff)
            days_rest_away == compute_days_rest(away, game_date, c.rest_away)
            days_rest_home == compute_days_rest(home, game_date, c.rest_home)
            implied_total == game_implied_total_from_odds(c.odds)
        IN  Ok([away_id |-> away,
                home_id |-> home,
                head2head_OT_rate |-> head2head_ot_rate,
                head2head_avg_goal_margin |-> _avg_goal_margin(h2h.value),
                playoff_rivalry_flag |-> playoff_rivalry_flag,
                standings_gap |-> gap.value,
                regulation_win_pct_diff |-> reg_win_pct_diff,
                xg_share_diff |-> xg_share_diff,
                special_teams_mismatch |-> special_teams_mismatch_of(s_home, s_away),
                evenly_matched |-> evenly_matched,
                team_OT_rate_last_15_away |-> _compute_ot_rate_from_games(last_away.value),
                team_OT_rate_last_15_home |-> _compute_ot_rate_from_games(last_home.value),
                days_rest_away |-> days_rest_away,
                days_rest_home |-> days_rest_home,
                back_to_back_away |-> days_rest_away = Some(0),
                back_to_back_home |-> days_rest_home = Some(0),
                goalie_status_away |-> "unknown",
                goalie_status_home |-> "unknown",
                implied_total |-> implied_total,
                data_confidence |->
                    data_confidence_of(s_home, s_away, implied_total, xg_share_diff),
                reason |-> reason_of(head2head_ot_rate, Len(h2h.value),
                                     playoff_rivalry_flag, evenly_matched)])

----------------------------------------------------------------------------
(* The OT rate on its own: _compute_ot_rate_from_games applied to game lists. *)

Periods(n) == [i \in 1..n |-> i]

\* Linescores as the schedule API returns them: keys may be missing.
Linescores ==
    {[periods |-> Periods(n), hasShootout |-> so] : n \in {3, 4}, so \in BOOLEAN}
    \cup {[periods |-> Periods(n)] : n \in {3, 4}}
    \cup {[hasShootout |-> so] : so \in BOOLEAN}
    \cup {<<>>}

GameKinds == {[linescore |-> ls] : ls \in Linescores} \cup {[gamePk |-> 1]}

RECURSIVE SeqsUpTo(_, _)
SeqsUpTo(S, n) ==
    IF n = 0 THEN {<<>>}
    ELSE LET shorter == SeqsUpTo(S, n - 1)
         IN  shorter \cup {Append(q, x) : q \in {r \in shorter : Len(r) = n - 1}, x \in S}

InitOT ==
    /\ SKIP_IF_RIVALRY_OR_EVEN = FALSE
    /\ games \in SeqsUpTo(GameKinds, MaxGames)
    /\ ot_rate = None
    /\ IdleScorer /\ IdleExtractor /\ IdleCaller

\* ot_rate = _compute_ot_rate_from_games(games)
ComputeOtRate ==
    /\ IsNone(ot_rate)
    /\ ot_rate' = Some(_compute_ot_rate_from_games(games))
    /\ UNCHANGED <<SKIP_IF_RIVALRY_OR_EVEN, scorerVars, games, extractorVars,
                   callerVars>>

NextOT == ComputeOtRate

SpecOT == InitOT /\ [][NextOT]_vars

\* The games of a list that have more than 3 periods or the shootout flag set.
OvertimeGames(gs) ==
    {i \in 1..Len(gs) :
        \/ /\ "linescore" \in DOMAIN gs[i]
           /\ "periods" \in DOMAIN gs[i].linescore
           /\ Len(gs[i].linescore.periods) > 3
        \/ /\ "linescore" \in DOMAIN gs[i]
           /\ "hasShootout" \in DOMAIN gs[i].linescore
           /\ gs[i].linescore.hasShootout}

\* C5: the OT rate of a list of games is the number of its games with more
\* than 3 periods or the shootout flag set, divided by the number of games;
\* it is exactly 0 for the empty list, and always within [0, 1].
C5_OtRateIsFraction ==
    \A r \in ot_rate :
        /\ r[2] > 0
        /\ r[1] * Len(games) = Cardinality(OvertimeGames(games)) * r[2]
        /\ (games = <<>>) => r = RInt(0)
        /\ RLe(RInt(0), r) /\ RLe(r, RInt(1))

\* The rate of a list holding a game that is an overtime game by its shootout
\* flag alone, and a game that ended in regulation.
C5_Witness ==
    \E r \in ot_rate :
        /\ \E i \in OvertimeGames(games) :
              /\ "periods" \in DOMAIN games[i].linescore
              /\ Len(games[i].linescore.periods) = 3
        /\ Cardinality(OvertimeGames(games)) < Len(games)
        /\ RLt(RInt(0), r) /\ RLt(r, RInt(1))

----------------------------------------------------------------------------
(* The extractor on its own: compute_signals_for_matchup applied to calls. *)

\* A game of the schedule API: date (a day number), the two teams with their
\* scores (None while the game is not played), the numbers of periods played,
\* the shootout flag.
ApiGame(date, away, home, away_score, home_score, n_periods, shootout) ==
    [gameDate |-> date,
     teams |-> [away |-> [team |-> [id |-> away], score |-> away_score],
                home |-> [team |-> [id |-> home], score |-> home_score]],
     linescore |-> [periods |-> Periods(n_periods), hasShootout |-> shootout]]

\* The matchup handed to compute_signals_for_matchup (main.py:39-40).
Matchup(pk, date, away, home) ==
    [gamePk |-> pk, gameDate |-> date,
     teams |-> [away |-> [team |-> [id |-> away]],
                home |-> [team |-> [id |-> home]]]]

\* A team's record as fetch_standings stores it (data_fetcher.py:97-104):
\* every key is there, with None for what the API left out.
TeamRecord(points, rw, gp, pp, pk) ==
    [points |-> points, pointsPct |-> None, regulationWins |-> rw,
     gamesPlayed |-> gp, ppPct |-> pp, pkPct |-> pk]

FullRecord == TeamRecord(Some(50), Some(20), Some(40), Some(RInt(20)), Some(RInt(80)))

HttpError == Raised("HTTPError")

NoPlayoffs == [s \in 1..PLAYOFF_RIVALRY_LOOKBACK_SEASONS |-> Ok(<<>>)]

\* A call in which nothing is missing and nothing fails: team 1 at team 2
\* on day 10, no head-to-head history, no recent games.
BaseCall ==
    [game |-> Matchup(1, 10, 1, 2),
     standings |-> [t \in {1, 2} |-> FullRecord],
     odds |-> None,
     xg_share_last10 |-> None,
     today |-> 10,
     h2h_first |-> Ok(<<>>),
     h2h_second |-> Ok(<<>>),
     playoffs |-> NoPlayoffs,
     last_away |-> Ok(<<>>),
     last_home |-> Ok(<<>>),
     rest_away |-> Ok(<<>>),
     rest_home |-> Ok(<<>>)]

\* Calls that vary what the parity test reads: the points, the regulation
\* wins and the shot-share mapping, around their thresholds.
XgMaps ==
    {None, Some(<<>>), Some([t \in {1} |-> Some(Rat(50, 100))]),
     Some([t \in {1, 2} |-> None])}
    \cup {Some([t \in {1, 2} |-> IF t = 1 THEN Some(Rat(50, 100)) ELSE Some(Rat(x, 100))])
            : x \in {50, 55, 56, 57}}

ParityCalls ==
    {[BaseCall EXCEPT
        !.standings = [t \in {1, 2} |->
            IF t = 1 THEN FullRecord
            ELSE TeamRecord(Some(p), Some(rw), Some(40), Some(RInt(20)), Some(RInt(80)))],
        !.xg_share_last10 = xg]
      : p \in {50, 55, 56, 57}, rw \in {20, 21, 22, 23}, xg \in XgMaps}

\* Calls that vary the four special-teams fields: missing, a number, or a
\* value float() cannot convert.
PctValues == {None, Some(RInt(20)), Some(RInt(85)), Some(Malformed)}

SpecialTeamsCalls ==
    {[BaseCall EXCEPT
        !.standings = [t \in {1, 2} |->
            IF t = 1 THEN TeamRecord(Some(50), Some(20), Some(40), pp_away, pk_away)
            ELSE TeamRecord(Some(50), Some(20), Some(40), pp_home, pk_home)]]
      : pp_away \in PctValues, pk_away \in PctValues,
        pp_home \in PctValues, pk_home \in PctValues}

\* Calls that vary what the standings snapshot lacks: a team without a
\* record, a record with fields left None.
SparseRecords ==
    {TeamRecord(points, rw, gp, pct, pct) :
        points \in {None, Some(50), Some(53)}, rw \in {None, Some(20)},
        gp \in {None, Some(40)}, pct \in {None, Some(RInt(20))}}

SparseStandings ==
    {[t \in {1, 2} |-> IF t = 1 THEN ra ELSE rh] : ra \in SparseRecords, rh \in SparseRecords}
    \cup {[t \in {1} |-> ra] : ra \in SparseRecords}
    \cup {[t \in {2} |-> rh] : rh \in SparseRecords}
    \cup {<<>>}

SparseCalls == {[BaseCall EXCEPT !.standings = st] : st \in SparseStandings}

\* Calls that vary what the schedule API answers: an error, or games.
OtYesterday == ApiGame(9, 1, 2, Some(3), Some(2), 4, FALSE)
RegulationLastWeek == ApiGame(3, 2, 1, Some(1), Some(4), 3, FALSE)

ApiResponses == {HttpError, Ok(<<>>), Ok(<<RegulationLastWeek, OtYesterday>>)}

FetchCalls ==
    {[BaseCall EXCEPT
        !.h2h_first = a, !.h2h_second = b, !.last_away = c, !.last_home = d,
        !.rest_away = e, !.rest_home = e]
      : a \in ApiResponses, b \in ApiResponses, c \in ApiResponses,
        d \in ApiResponses, e \in ApiResponses}

\* Calls that vary what the data-confidence checklist counts: which teams
\* have a standings record, the odds mapping, the shot-share mapping, and
\* whether the game samples are empty.
OddsValues ==
    {None, Some(<<>>), Some([book |-> "x"]), Some([total |-> None]),
     Some([total |-> Some(Rat(11, 2))])}

ConfidenceCalls ==
    {[BaseCall EXCEPT
        !.standings = [t \in present |-> FullRecord],
        !.odds = odds,
        !.xg_share_last10 = xg,
        !.h2h_first = sample, !.h2h_second = sample,
        !.last_away = sample, !.last_home = sample]
      : present \in SUBSET {1, 2}, odds \in OddsValues, xg \in XgMaps,
        sample \in {Ok(<<>>), Ok(<<RegulationLastWeek, OtYesterday>>)}}

\* Calls that vary what the playoff API answers for the latest season, the
\* one before and the oldest one scanned: an error, no series, a series
\* between the two teams (alone, after another series, before or after a
\* series that cannot be parsed), or only series that are skipped or cannot
\* be parsed.
PlayoffsDown == Raised("ConnectionError")

SeasonResponses ==
    {PlayoffsDown,
     Ok(<<>>),
     Ok(<<<<Some(1), Some(2)>>>>),
     Ok(<<<<Some(3), Some(1)>>, <<Some(2), Some(1)>>>>),
     Ok(<<<<Some(1)>>, <<Some(1), Some(2)>>>>),
     Ok(<<<<Some(1), Some(2)>>, <<Some(1)>>>>),
     Ok(<<<<>>, <<None, Some(2)>>, <<Some(NotAnInt), Some(2)>>>>)}

PlayoffCalls ==
    {[BaseCall EXCEPT
        !.playoffs = [s \in 1..PLAYOFF_RIVALRY_LOOKBACK_SEASONS |->
                        IF s = 1 THEN latest
                        ELSE IF s = 2 THEN before
                        ELSE IF s = PLAYOFF_RIVALRY_LOOKBACK_SEASONS THEN oldest
                        ELSE Ok(<<>>)]]
      : latest \in SeasonResponses, before \in SeasonResponses,
        oldest \in SeasonResponses}

\* Calls that vary the three conditions the reason reports: a head-to-head
\* history with no game, with one game in five gone to overtime (a rate equal
\* to the penalty threshold) or with one in two; a playoff series three
\* seasons back or none; standings level or apart.
OneInFive ==
    [i \in 1..5 |-> ApiGame(i, 1, 2, Some(3), Some(2), IF i = 5 THEN 4 ELSE 3, FALSE)]

ReasonCalls ==
    {[BaseCall EXCEPT
        !.h2h_first = sample, !.h2h_second = sample,
        !.playoffs = [s \in 1..PLAYOFF_RIVALRY_LOOKBACK_SEASONS |->
                        IF met /\ s = 3 THEN Ok(<<<<Some(2), Some(1)>>>>) ELSE Ok(<<>>)],
        !.standings = [t \in {1, 2} |->
            IF t = 1 THEN FullRecord
            ELSE TeamRecord(Some(p), Some(20), Some(40), Some(RInt(20)), Some(RInt(80)))]]
      : sample \in {Ok(<<>>), Ok(OneInFive), Ok(<<RegulationLastWeek, OtYesterday>>)},
        met \in BOOLEAN, p \in {50, 60}}

\* Calls that vary the head-to-head history the schedule API holds at the
\* first call (none, 9, 10, 20 or 25 games between the two teams, one a day,
\* every other one gone to overtime, listed oldest first) and what it answers
\* at the second: the same, an error, nothing, or twelve overtime games.
History(k) ==
    [i \in 1..k |-> ApiGame(i, 1, 2, Some(i % 3), Some(0), IF i % 2 = 1 THEN 4 ELSE 3, FALSE)]

TwelveInOvertime == [i \in 1..12 |-> ApiGame(i, 2, 1, Some(4), Some(0), 4, FALSE)]

HistorySizes ==
    {0, H2H_LOOKBACK_GAMES_FALLBACK - 1, H2H_LOOKBACK_GAMES_FALLBACK,
     H2H_LOOKBACK_GAMES_PRIMARY, H2H_LOOKBACK_GAMES_PRIMARY + 5}

HeadToHeadCalls ==
    {[BaseCall EXCEPT !.h2h_first = Ok(History(k)), !.h2h_second = second]
      : k \in HistorySizes,
        second \in {HttpError, Ok(<<>>), Ok(TwelveInOvertime)}}
    \cup {[BaseCall EXCEPT !.h2h_first = Ok(History(k)), !.h2h_second = Ok(History(k))]
            : k \in HistorySizes}

ExtractorCalls ==
    ParityCalls \cup SpecialTeamsCalls \cup SparseCalls \cup FetchCalls
    \cup ConfidenceCalls \cup PlayoffCalls \cup ReasonCalls \cup HeadToHeadCalls

InitSignals ==
    /\ SKIP_IF_RIVALRY_OR_EVEN = FALSE
    /\ \E c \in ExtractorCalls : call = Some(c)
    /\ outcome = None
    /\ IdleScorer /\ IdleOT /\ IdleCaller

\* outcome = compute_signals_for_matchup(game, standings, odds, xg_share_last10)
ComputeSignals ==
    /\ IsNone(outcome)
    /\ outcome' = Some(compute_signals_for_matchup(The(call)))
    /\ UNCHANGED <<SKIP_IF_RIVALRY_OR_EVEN, scorerVars, otVars, call, callerVars>>

NextSignals == ComputeSignals

SpecSignals == InitSignals /\ [][NextSignals]_vars

----------------------------------------------------------------------------
(* Properties of the extractor. *)

AwayOf(c) == c.game.teams.away.team.id
HomeOf(c) == c.game.teams.home.team.id

\* A field of a team's standings record: None when the team has no record
\* or the record holds no value for it.
Field(c, team, key) ==
    IF team \in DOMAIN c.standings THEN c.standings[team][key] ELSE None

\* The shot-share metric is there for both teams.
MetricAvailable(c) ==
    /\ ~IsNone(c.xg_share_last10)
    /\ {AwayOf(c), HomeOf(c)} \subseteq DOMAIN The(c.xg_share_last10)

\* C4: evenly_matched is (standings_gap < 6 and regulation_win_pct_diff < 0.05
\* and xg_share_diff < 0.06) when the shot-share metric is available for both
\* teams, and (standings_gap < 6 and regulation_win_pct_diff < 0.05) when it
\* is not; the comparisons are strict.
C4_EvenlyMatchedStrict ==
    \A o \in outcome :
        o.status = "ok" =>
            LET sig == o.value
                two == /\ sig.standings_gap < 6
                       /\ RLt(sig.regulation_win_pct_diff, Rat(5, 100))
            IN  /\ MetricAvailable(The(call)) <=> ~IsNone(sig.xg_share_diff)
                /\ MetricAvailable(The(call)) =>
                      (sig.evenly_matched <=>
                          (two /\ RLt(The(sig.xg_share_diff), Rat(6, 100))))
                /\ ~MetricAvailable(The(call)) => (sig.evenly_matched <=> two)

\* The metric is available, the gap and the regulation-win difference pass,
\* and the shot-share difference equals its threshold: the flag is false.
C4_Witness ==
    \E o \in outcome :
        /\ o.status = "ok"
        /\ MetricAvailable(The(call))
        /\ o.value.standings_gap = 5
        /\ RLt(RInt(0), o.value.regulation_win_pct_diff)
        /\ RLt(o.value.regulation_win_pct_diff, Rat(5, 100))
        /\ o.value.xg_share_diff = Some(Rat(6, 100))
        /\ ~o.value.evenly_matched

\* (a - b) / 100
SignedGap(a, b) == RMul(RSub(The(a), The(b)), Rat(1, 100))
\* |a - b| / 100
AbsGap(a, b) == RMul(RAbs(RSub(The(a), The(b))), Rat(1, 100))
Larger(a, b) == IF RLt(a, b) THEN b ELSE a

\* C7 as stated: special_teams_mismatch is the maximum of (home power-play %
\* minus away penalty-kill %) and (away power-play % minus home penalty-kill
\* %), each divided by 100, and is None whenever one of the four fields is
\* missing.
C7_SignedMaxOrAbsent ==
    \A o \in outcome :
        o.status = "ok" =>
            LET c == The(call)
                pp_home == Field(c, HomeOf(c), "ppPct")
                pk_home == Field(c, HomeOf(c), "pkPct")
                pp_away == Field(c, AwayOf(c), "ppPct")
                pk_away == Field(c, AwayOf(c), "pkPct")
                missing == None \in {pp_home, pk_home, pp_away, pk_away}
                numeric == Malformed \notin (pp_home \cup pk_home \cup pp_away \cup pk_away)
            IN  /\ missing => o.value.special_teams_mismatch = None
                /\ (~missing /\ numeric) =>
                      o.value.special_teams_mismatch =
                          Some(Larger(SignedGap(pp_home, pk_away), SignedGap(pp_away, pk_home)))

\* C7, amended: special_teams_mismatch is the maximum of |home power-play % -
\* away penalty-kill %| / 100 and |away power-play % - home penalty-kill %| /
\* 100, taken over the pairs whose two fields are both present; it is None
\* when neither pair has both fields, or when a field of a complete pair is
\* not a number.
C7_AbsMaxOverCompletePairs ==
    \A o \in outcome :
        o.status = "ok" =>
            LET c == The(call)
                pp_home == Field(c, HomeOf(c), "ppPct")
                pk_home == Field(c, HomeOf(c), "pkPct")
                pp_away == Field(c, AwayOf(c), "ppPct")
                pk_away == Field(c, AwayOf(c), "pkPct")
                first == None \notin {pp_home, pk_away}
                second == None \notin {pp_away, pk_home}
                numeric == /\ first => Malformed \notin (pp_home \cup pk_away)
                           /\ second => Malformed \notin (pp_away \cup pk_home)
                stm == o.value.special_teams_mismatch
            IN  /\ ~numeric => stm = None
                /\ (numeric /\ first /\ second) =>
                      stm = Some(Larger(AbsGap(pp_home, pk_away), AbsGap(pp_away, pk_home)))
                /\ (numeric /\ first /\ ~second) => stm = Some(AbsGap(pp_home, pk_away))
                /\ (numeric /\ ~first /\ second) => stm = Some(AbsGap(pp_away, pk_home))
                /\ (~first /\ ~second) => stm = None

\* Only the home power-play and away penalty-kill percentages are present,
\* the power-play one the smaller: the mismatch is there, and positive.
C7_Witness ==
    \E o \in outcome :
        /\ o.status = "ok"
        /\ LET c == The(call)
           IN  /\ Field(c, HomeOf(c), "ppPct") = Some(RInt(20))
               /\ Field(c, AwayOf(c), "pkPct") = Some(RInt(85))
               /\ Field(c, AwayOf(c), "ppPct") = None
               /\ Field(c, HomeOf(c), "pkPct") = None
        /\ o.value.special_teams_mismatch = Some(Rat(65, 100))

\* The schedule API failed during a call compute_signals_for_matchup always
\* makes.
FetchFailed(c) ==
    \/ c.h2h_first.status = "raised"
    \/ c.last_away.status = "raised"
    \/ c.last_home.status = "raised"

\* C8: a fetch_head_to_head or fetch_team_last_games failure is caught inside
\* compute_signals_for_matchup, which still returns a SignalSet in which the
\* dependent rate has its neutral value 0.0.
C8_FetchFailureDegrades ==
    \A o \in outcome :
        FetchFailed(The(call)) =>
            /\ o.status = "ok"
            /\ (The(call).h2h_first.status = "raised") =>
                  o.value.head2head_OT_rate = RInt(0)
            /\ (The(call).last_away.status = "raised") =>
                  o.value.team_OT_rate_last_15_away = RInt(0)
            /\ (The(call).last_home.status = "raised") =>
                  o.value.team_OT_rate_last_15_home = RInt(0)

\* C9: with a team's record missing, or present with fields left None, and no
\* fetch failing, compute_signals_for_matchup returns a SignalSet whose
\* standings fields are neutral: missing points count as 0, the regulation-win
\* rate of a team without both counts is 0.0.
C9_MissingStandingsDegrade ==
    \A o \in outcome :
        ~FetchFailed(The(call)) =>
            LET c == The(call)
                p_home == OrZero(Field(c, HomeOf(c), "points"))
                p_away == OrZero(Field(c, AwayOf(c), "points"))
            IN  /\ o.status = "ok"
                /\ o.value.standings_gap = Abs(p_home - p_away)
                /\ (\A t \in {AwayOf(c), HomeOf(c)} :
                        None \in {Field(c, t, "regulationWins"), Field(c, t, "gamesPlayed")})
                     => o.value.regulation_win_pct_diff = RInt(0)

\* The checklist items of a call, counted from the call's inputs: the two
\* constant items, the head-to-head sample and both recent-games samples
\* (obtained whenever the call completes, empty or not), each team's standings
\* record, the implied total, and the shot-share difference.
ImpliedTotalPresent(c) ==
    /\ ~IsNone(c.odds)
    /\ The(c.odds) # <<>>
    /\ "total" \in DOMAIN The(c.odds)
    /\ ~IsNone(The(c.odds).total)

ShotShareDiffPresent(c) ==
    /\ ~IsNone(c.xg_share_last10)
    /\ {AwayOf(c), HomeOf(c)} \subseteq DOMAIN The(c.xg_share_last10)

ChecklistSatisfied(c) ==
    4 + (IF HomeOf(c) \in DOMAIN c.standings THEN 1 ELSE 0)
      + (IF AwayOf(c) \in DOMAIN c.standings THEN 1 ELSE 0)
      + (IF ImpliedTotalPresent(c) THEN 1 ELSE 0)
      + (IF ShotShareDiffPresent(c) THEN 1 ELSE 0)

\* C11: data_confidence is 100 * k / 8 rounded to the nearest integer, k being
\* the number of satisfied items of the eight-item checklist; it is an integer
\* in [0, 100]; a game sample that was returned empty counts as obtained.
C11_DataConfidenceIsChecklistShare ==
    \A c \in call : \A o \in outcome :
        o.status = "ok" =>
            LET k == ChecklistSatisfied(c)
                dc == o.value.data_confidence
            IN  /\ dc \in 0..100
                /\ 2 * Abs(8 * dc - 100 * k) <= 8
                /\ 8 * dc # 100 * k => dc % 2 = 0 \/ 2 * Abs(8 * dc - 100 * k) < 8

\* Every game sample came back empty, one team has no standings record and
\* there is neither an implied total nor a shot-share difference: five items
\* of eight, 62.5, reported as 62.
C11_Witness ==
    \E c \in call : \E o \in outcome :
        /\ o.status = "ok"
        /\ c.h2h_first = Ok(<<>>) /\ c.last_away = Ok(<<>>) /\ c.last_home = Ok(<<>>)
        /\ ChecklistSatisfied(c) = 5
        /\ o.value.data_confidence = 62

\* A series the lookup cannot parse, and a series between exactly two teams.
Unparsable(series) ==
    \/ Len(series) = 1
    \/ /\ Len(series) >= 2
       /\ ~IsNone(series[1]) /\ ~IsNone(series[2])
       /\ NotAnInt \in (series[1] \cup series[2])

SeriesBetween(series, a, b) ==
    /\ Len(series) >= 2
    /\ ~IsNone(series[1]) /\ ~IsNone(series[2])
    /\ series[1] \cup series[2] = {a, b}
    /\ series[1] # series[2]

\* The lookup fails at season s: the fetch fails, or a series of that season
\* before the i-th cannot be parsed.
FailsWithin(apis, s, i) ==
    \/ apis[s].status = "raised"
    \/ \E j \in 1..(i - 1) : j <= Len(apis[s].value) /\ Unparsable(apis[s].value[j])

\* A series between the two teams stands at a place the scan reaches before
\* any failure.
SeriesFoundBeforeFailure(c) ==
    \E s \in 1..PLAYOFF_RIVALRY_LOOKBACK_SEASONS :
        /\ c.playoffs[s].status = "ok"
        /\ \E i \in 1..Len(c.playoffs[s].value) :
              /\ SeriesBetween(c.playoffs[s].value[i], AwayOf(c), HomeOf(c))
              /\ ~FailsWithin(c.playoffs, s, i)
              /\ \A t \in 1..(s - 1) :
                    /\ c.playoffs[t].status = "ok"
                    /\ ~FailsWithin(c.playoffs, t, Len(c.playoffs[t].value) + 1)

\* Nothing but the rivalry lookup can fail in the call.
OnlyLookupCanFail(c) ==
    /\ ~FetchFailed(c)
    /\ c.h2h_second.status = "ok"
    /\ \A t \in {AwayOf(c), HomeOf(c)} :
          t \in DOMAIN c.standings => ~IsNone(c.standings[t].points)

\* C12: the rivalry lookup never raises; it is true exactly when a series
\* between the two teams is found before any season fetch or parse fails
\* within the seasons scanned in order, and false otherwise; a failing lookup
\* leaves playoff_rivalry_flag false and compute_signals_for_matchup returns.
C12_RivalryLookupNeverRaises ==
    \A c \in call : \A o \in outcome :
        /\ OnlyLookupCanFail(c) => o.status = "ok"
        /\ o.status = "raised" => o.exc # PlayoffsDown.exc
        /\ o.status = "ok" =>
              (o.value.playoff_rivalry_flag <=> SeriesFoundBeforeFailure(c))

\* The latest season's fetch failed and the season before holds a series
\* between the two teams: the call returned, the flag is false.
C12_Witness ==
    \E c \in call : \E o \in outcome :
        /\ c.playoffs[1] = PlayoffsDown
        /\ c.playoffs[2].status = "ok"
        /\ \E i \in 1..Len(c.playoffs[2].value) :
              SeriesBetween(c.playoffs[2].value[i], AwayOf(c), HomeOf(c))
        /\ o.status = "ok"
        /\ ~o.value.playoff_rivalry_flag

\* The three texts of the reason.
HeadToHeadText(rate, n) ==
    "Head-to-head OT " \o ToString(RRound(RMul(RInt(100), rate)))
        \o "% last " \o ToString(n)

PlayoffsText == "Recent playoffs met"

EvenText == "Evenly matched by standings/reg wins/xG"

\* The texts of the conditions that hold, in the fixed order, joined by "; ".
ExpectedReason(hot, met, even, h) ==
    CASE hot /\ met /\ even -> h \o "; " \o PlayoffsText \o "; " \o EvenText
      [] hot /\ met /\ ~even -> h \o "; " \o PlayoffsText
      [] hot /\ ~met /\ even -> h \o "; " \o EvenText
      [] hot /\ ~met /\ ~even -> h
      [] ~hot /\ met /\ even -> PlayoffsText \o "; " \o EvenText
      [] ~hot /\ met /\ ~even -> PlayoffsText
      [] ~hot /\ ~met /\ even -> EvenText
      [] ~hot /\ ~met /\ ~even -> ""

\* C13: the reason of a SignalSet is the "; "-joined concatenation, in this
\* order, of the head-to-head OT text iff head2head_OT_rate is above the
\* penalty threshold, "Recent playoffs met" iff playoff_rivalry_flag,
\* "Evenly matched by standings/reg wins/xG" iff evenly_matched; it is empty
\* exactly when none of the three holds.
C13_ReasonListsConditionsInOrder ==
    \A o \in outcome :
        o.status = "ok" =>
            LET sig == o.value
                hot == RGt(sig.head2head_OT_rate, H2H_OT_RATE_PENALTY_THRESHOLD)
                met == sig.playoff_rivalry_flag
                even == sig.evenly_matched
            IN  /\ \E n \in 0..H2H_LOOKBACK_GAMES_PRIMARY :
                      sig.reason =
                        ExpectedReason(hot, met, even,
                                       HeadToHeadText(sig.head2head_OT_rate, n))
                /\ sig.reason = "" <=> ~(hot \/ met \/ even)

\* All three conditions hold and the reason lists the three texts.
C13_Witness ==
    \E o \in outcome :
        /\ o.status = "ok"
        /\ o.value.playoff_rivalry_flag
        /\ o.value.evenly_matched
        /\ o.value.head2head_OT_rate = Rat(1, 2)
        /\ o.value.reason =
              "Head-to-head OT 50% last 2; Recent playoffs met; "
                \o "Evenly matched by standings/reg wins/xG"

\* The n most recent games between the two teams among those the API holds
\* (game dates are distinct), in the API's order.
MostRecent(held, c, n) ==
    LET between == SelectSeq(held,
            LAMBDA g : {g.teams.away.team.id, g.teams.home.team.id} = {AwayOf(c), HomeOf(c)})
    IN  SelectSeq(between,
            LAMBDA g : Cardinality({j \in 1..Len(between) :
                                      between[j].gameDate > g.gameDate}) < n)

\* The second call is due: the first returned fewer than
\* H2H_LOOKBACK_GAMES_FALLBACK games.
SecondCallDue(c) ==
    Len(MostRecent(c.h2h_first.value, c, H2H_LOOKBACK_GAMES_PRIMARY))
        < H2H_LOOKBACK_GAMES_FALLBACK

\* C15: fetch_head_to_head is first called for H2H_LOOKBACK_GAMES_PRIMARY
\* games; a second call for H2H_LOOKBACK_GAMES_FALLBACK games is made iff the
\* first returned fewer than H2H_LOOKBACK_GAMES_FALLBACK, and its result then
\* replaces the first; the sample behind head2head_OT_rate and
\* head2head_avg_goal_margin never has more than H2H_LOOKBACK_GAMES_PRIMARY
\* games, and no more than H2H_LOOKBACK_GAMES_FALLBACK after a fallback.
C15_FallbackIffFirstSampleShort ==
    \A c \in call : \A o \in outcome :
        c.h2h_first.status = "ok" =>
            /\ (SecondCallDue(c) /\ c.h2h_second.status = "raised") => o = c.h2h_second
            /\ ( /\ ~SecondCallDue(c)
                 /\ ~FetchFailed(c)
                 /\ \A t \in {AwayOf(c), HomeOf(c)} :
                       t \in DOMAIN c.standings => ~IsNone(c.standings[t].points) )
               => o.status = "ok"
            /\ o.status = "ok" =>
                  LET sample ==
                        IF SecondCallDue(c)
                        THEN MostRecent(c.h2h_second.value, c, H2H_LOOKBACK_GAMES_FALLBACK)
                        ELSE MostRecent(c.h2h_first.value, c, H2H_LOOKBACK_GAMES_PRIMARY)
                      rate == _pct(Cardinality(OvertimeGames(sample)), Len(sample))
                  IN  /\ Len(sample) <= H2H_LOOKBACK_GAMES_PRIMARY
                      /\ SecondCallDue(c) => Len(sample) <= H2H_LOOKBACK_GAMES_FALLBACK
                      /\ o.value.head2head_OT_rate = rate
                      /\ o.value.head2head_avg_goal_margin = _avg_goal_margin(sample)
                      /\ RGt(rate, H2H_OT_RATE_PENALTY_THRESHOLD) =>
                            o.value.reason =
                              ExpectedReason(TRUE, o.value.playoff_rivalry_flag,
                                             o.value.evenly_matched,
                                             HeadToHeadText(rate, Len(sample)))

\* The first call returned nine games, the second twelve: the ten most recent
\* of the second call are the sample.
C15_Witness ==
    \E c \in call : \E o \in outcome :
        /\ c.h2h_first.status = "ok"
        /\ Len(c.h2h_first.value) = H2H_LOOKBACK_GAMES_FALLBACK - 1
        /\ c.h2h_second = Ok(TwelveInOvertime)
        /\ o.status = "ok"
        /\ o.value.head2head_OT_rate = RInt(1)
        /\ o.value.head2head_avg_goal_margin = RInt(4)
        /\ o.value.reason =
              "Head-to-head OT 100% last 10; Evenly matched by standings/reg wins/xG"

----------------------------------------------------------------------------
(* main.py and api/index.py: the callers' loop over the schedule *)

\* rows[:n] for a Python int n: a negative n counts from the end.
PySliceTo(q, n) ==
    IF n >= 0 THEN Take(q, n)
    ELSE Take(q, IF Len(q) + n > 0 THEN Len(q) + n ELSE 0)

\* list.sort(key=lambda r: r.get("confidence", 0), reverse=True): stable.
RECURSIVE InsertByConfidenceDesc(_, _)
InsertByConfidenceDesc(sorted, r) ==
    IF sorted = <<>> THEN <<r>>
    ELSE IF Get(Head(sorted), "confidence", 0) >= Get(r, "confidence", 0)
         THEN <<Head(sorted)>> \o InsertByConfidenceDesc(Tail(sorted), r)
         ELSE <<r>> \o sorted

RECURSIVE SortByConfidenceDesc(_)
SortByConfidenceDesc(rs) ==
    IF rs = <<>> THEN <<>>
    ELSE InsertByConfidenceDesc(SortByConfidenceDesc(SubSeq(rs, 1, Len(rs) - 1)),
                                rs[Len(rs)])

\* api/index.py:32-33.
abbr(tmap, team_id) ==
    IF team_id \in DOMAIN tmap THEN tmap[team_id].abbreviation ELSE ToString(team_id)

\* api/index.py:38-49: one row of the JSON payload.
payload_row(tmap, r) ==
    [matchup |-> abbr(tmap, r.away_id) \o " @ " \o abbr(tmap, r.home_id),
     away_id |-> r.away_id,
     home_id |-> r.home_id,
     head2head_ot_pct |-> RRound(RMul(RInt(100), Get(r, "head2head_OT_rate", RInt(0)))),
     evenly_matched |-> r.evenly_matched,
     days_rest |-> <<r.days_rest_away, r.days_rest_home>>,
     goalie_status |-> <<r.goalie_status_away, r.goalie_status_home>>,
     confidence |-> Get(r, "confidence", 0),
     reason |-> Get(r, "reason", ""),
     data_confidence |-> Get(r, "data_confidence", 0)]

\* The call compute_signals_for_matchup(g, standings) makes for game i: no
\* odds, no shot-share mapping (main.py:40, api/index.py:23).
CallFor(i) ==
    [game |-> schedule[i], standings |-> standings, odds |-> None,
     xg_share_last10 |-> None] @@ world[i]

\* main.py:41 calls should_skip; api/index.py:24 calls it only with skip_flags
\* set.  The value is None when should_skip is not called.
skip_decision(sig) ==
    IF caller = "main" \/ skip_flags
    THEN Some(should_skip(SKIP_IF_RIVALRY_OR_EVEN, sig))
    ELSE None

TeamsMaps == {<<>>, [t \in {1, 2} |-> [abbreviation |-> IF t = 1 THEN "BOS" ELSE "MTL"]]}

Matchups == {Matchup(1, 10, 1, 2), Matchup(2, 10, 3, 1)}

\* Standings: teams 1 and 2 level on points; team 3 ahead, or with its points
\* left out by the API.
ThirdRecords ==
    {TeamRecord(Some(70), Some(30), Some(40), Some(RInt(25)), Some(RInt(75))),
     TeamRecord(None, Some(30), Some(40), None, None)}

StandingsSnapshots ==
    {[t \in {1, 2, 3} |-> IF t = 3 THEN third ELSE FullRecord] : third \in ThirdRecords}

\* What the APIs answer while one game is processed.
QuietWorld ==
    [today |-> 10, h2h_first |-> Ok(<<>>), h2h_second |-> Ok(<<>>),
     playoffs |-> NoPlayoffs, last_away |-> Ok(<<>>), last_home |-> Ok(<<>>),
     rest_away |-> Ok(<<>>), rest_home |-> Ok(<<>>)]

\* Both teams' last game went to overtime yesterday, against each other or
\* not; the head-to-head history is that game.
OvertimeWorld(a, b) ==
    [QuietWorld EXCEPT
        !.h2h_first = Ok(<<ApiGame(9, a, b, Some(3), Some(2), 4, FALSE)>>),
        !.h2h_second = Ok(<<ApiGame(9, a, b, Some(3), Some(2), 4, FALSE)>>),
        !.last_away = Ok(<<ApiGame(9, a, b, Some(3), Some(2), 4, FALSE)>>),
        !.last_home = Ok(<<ApiGame(9, a, b, Some(3), Some(2), 4, FALSE)>>),
        !.rest_away = Ok(<<ApiGame(9, a, b, Some(3), Some(2), 4, FALSE)>>)]

FailingWorld == [QuietWorld EXCEPT !.last_home = HttpError]

RivalryWorld(a, b) ==
    [QuietWorld EXCEPT
        !.playoffs = [s \in 1..PLAYOFF_RIVALRY_LOOKBACK_SEASONS |->
                        IF s = 2 THEN Ok(<<<<Some(a), Some(b)>>>>) ELSE Ok(<<>>)]]

WorldsFor(g) ==
    {QuietWorld, FailingWorld,
     OvertimeWorld(TeamId(g, "away"), TeamId(g, "home")),
     RivalryWorld(TeamId(g, "home"), TeamId(g, "away"))}

\* get_games' max_rows: any integer of the query string.
MaxRowsValues == {-1, 1, MAX_TOP_GAMES}

Init ==
    /\ SKIP_IF_RIVALRY_OR_EVEN \in BOOLEAN
    /\ \/ caller = "main" /\ skip_flags = FALSE /\ max_rows = MAX_TOP_GAMES
       \/ caller = "get_games" /\ skip_flags \in BOOLEAN /\ max_rows \in MaxRowsValues
    /\ pc = "start"
    /\ teams_map = <<>> /\ standings = <<>> /\ schedule = <<>> /\ world = <<>>
    /\ idx = 0 /\ results = <<>> /\ top = <<>> /\ returned = {} /\ log = <<>>
    /\ IdleScorer /\ IdleOT /\ IdleExtractor

\* main.py:34-38, api/index.py:17-21: the three fetches before the loop; any
\* of them raising ends the caller.
FetchInputs ==
    /\ pc = "start"
    /\ \/ /\ teams_map' \in TeamsMaps
          /\ standings' \in StandingsSnapshots
          /\ schedule' \in SeqsUpTo(Matchups, MaxSchedule)
          /\ world' \in {w \in SeqsUpTo(UNION {WorldsFor(g) : g \in Matchups}, MaxSchedule) :
                            /\ Len(w) = Len(schedule')
                            /\ \A i \in 1..Len(w) : w[i] \in WorldsFor(schedule'[i])}
          /\ idx' = 1
          /\ pc' = "loop"
          /\ UNCHANGED returned
       \/ /\ pc' = "raised"
          /\ returned' = Some(HttpError)
          /\ UNCHANGED <<teams_map, standings, schedule, world, idx>>
    /\ UNCHANGED <<SKIP_IF_RIVALRY_OR_EVEN, scorerVars, otVars, extractorVars,
                   caller, skip_flags, max_rows, results, top, log>>

\* main.py:39-44, api/index.py:22-27: one turn of the loop.  An exception of
\* compute_signals_for_matchup leaves the loop and the caller.
ProcessGame ==
    /\ pc = "loop"
    /\ idx <= Len(schedule)
    /\ LET o == compute_signals_for_matchup(CallFor(idx))
       IN  IF o.status = "raised"
           THEN /\ pc' = "raised"
                /\ returned' = Some(o)
                /\ UNCHANGED <<idx, results, log>>
           ELSE LET decision == skip_decision(o.value)
                    dropped == decision = Some(TRUE)
                IN  /\ log' = Append(log, [game |-> idx, signals |-> o.value,
                                           should_skip |-> decision, dropped |-> dropped])
                    /\ results' = IF dropped THEN results
                                  ELSE Append(results, score_matchup(o.value))
                    /\ idx' = idx + 1
                    /\ UNCHANGED <<pc, returned>>
    /\ UNCHANGED <<SKIP_IF_RIVALRY_OR_EVEN, scorerVars, otVars, extractorVars,
                   caller, skip_flags, max_rows, teams_map, standings, schedule,
                   world, top>>

\* main.py:46-51, api/index.py:29-51: sort by confidence, truncate, present.
Present ==
    /\ pc = "loop"
    /\ idx > Len(schedule)
    /\ LET sorted == SortByConfidenceDesc(results)
           kept == PySliceTo(sorted, max_rows)
       IN  /\ top' = kept
           /\ returned' =
                IF caller = "main" THEN Some(Ok(kept))
                ELSE Some(Ok([count |-> Len(kept),
                              games |-> [i \in 1..Len(kept) |-> payload_row(teams_map, kept[i])]]))
    /\ pc' = "done"
    /\ UNCHANGED <<SKIP_IF_RIVALRY_OR_EVEN, scorerVars, otVars, extractorVars,
                   caller, skip_flags, max_rows, teams_map, standings, schedule,
                   world, idx, results, log>>

Next == FetchInputs \/ ProcessGame \/ Present

Spec == Init /\ [][Next]_vars

----------------------------------------------------------------------------
(* Properties of the callers' loop. *)

\* The condition should_skip tests once the flag is enabled.
SkipCondition(sig) ==
    \/ sig.evenly_matched
    \/ sig.playoff_rivalry_flag
    \/ RGt(sig.head2head_OT_rate, H2H_OT_RATE_PENALTY_THRESHOLD)

\* C3: should_skip returns true iff SKIP_IF_RIVALRY_OR_EVEN is enabled and
\* (evenly_matched or playoff_rivalry_flag or head2head_OT_rate above the
\* penalty threshold); with the flag disabled it returns false for every
\* mapping, and no caller drops a matchup.
C3_SkipIffFlagAndCondition ==
    /\ \A i \in 1..Len(log) :
          /\ \A v \in log[i].should_skip :
                v <=> (SKIP_IF_RIVALRY_OR_EVEN /\ SkipCondition(log[i].signals))
          /\ ~SKIP_IF_RIVALRY_OR_EVEN => ~log[i].dropped
    /\ ~SKIP_IF_RIVALRY_OR_EVEN => Len(results) = Len(log)

\* With the flag enabled, a matchup that is neither evenly matched nor a
\* playoff rivalry was dropped for its head-to-head OT rate alone.
C3_Witness ==
    /\ SKIP_IF_RIVALRY_OR_EVEN
    /\ \E i \in 1..Len(log) :
          /\ log[i].should_skip = Some(TRUE)
          /\ log[i].dropped
          /\ ~log[i].signals.evenly_matched
          /\ ~log[i].signals.playoff_rivalry_flag
          /\ Len(results) < i

\* C10: when the caller has ended, every matchup of the schedule whose own
\* data is good (compute_signals_for_matchup succeeds on it) and which the skip
\* filter keeps has been scored and is among the results the caller returns,
\* wherever it stands relative to a matchup whose data is bad.
C10_GoodMatchupsSurvive ==
    pc \in {"done", "raised"} =>
        \A j \in 1..Len(schedule) :
            LET o == compute_signals_for_matchup(CallFor(j))
            IN  (o.status = "ok" /\ skip_decision(o.value) # Some(TRUE)) =>
                    /\ \A r \in returned : r.status = "ok"
                    /\ \E k \in 1..Len(results) : results[k] = score_matchup(o.value)

\* The list the caller presents, once it has ended normally.
Elements(q) == {q[i] : i \in 1..Len(q)}

TopSorted ==
    \A i \in 1..Len(top) : \A j \in i..Len(top) : top[i].confidence >= top[j].confidence

\* The maximum row count: MAX_TOP_GAMES for main, max_rows for get_games; no
\* list has fewer than 0 rows.
RowLimit == IF max_rows < 0 THEN 0 ELSE max_rows

TopWithinLimit == Len(top) <= RowLimit

TopOmitsSkipped ==
    /\ Elements(top) \subseteq Elements(results)
    /\ \A i \in 1..Len(log) :
          log[i].should_skip = Some(TRUE) =>
              \A r \in Elements(top) : \E k \in DOMAIN log[i].signals :
                  r[k] # log[i].signals[k]

LeftOutNotAbove ==
    \A r \in Elements(results) \ Elements(top) :
        \A t \in Elements(top) : r.confidence <= t.confidence

ScoredFromOwnSignals ==
    \A r \in Elements(results) :
        \E i \in 1..Len(log) :
            /\ ~log[i].dropped
            /\ log[i].signals = compute_signals_for_matchup(CallFor(i)).value
            /\ r = score_matchup(log[i].signals)

\* C16: the list the caller presents is sorted by confidence in non-increasing
\* order, has at most the maximum row count of entries, holds no matchup the
\* skip filter applied to, and leaves out only scored matchups whose
\* confidence is at most that of every matchup kept; each matchup was scored
\* from its own computed signals.
C16_PresentedListSortedAndTruncated ==
    pc = "done" =>
        /\ TopSorted
        /\ TopWithinLimit
        /\ TopOmitsSkipped
        /\ LeftOutNotAbove
        /\ ScoredFromOwnSignals

====
